---- MODULE Spec2Model ----
(***************************************************************************)
(* Model of cps/gdriveutils.py: the path -> remote-id cache (GdriveId),    *)
(* the PermissionAdded table, the range splitter partial() and the chunk   *)
(* stream of do_gdrive_download.                                           *)
(*                                                                         *)
(* A path is a sequence of tokens: the separator "/" or a name.  A remote  *)
(* id is a positive integer; None is 0.  A table is the set of its rows    *)
(* (the surrogate key is left out: UniqueConstraint(gdrive_id, path) makes *)
(* the rows a set).  Query.first() has no ORDER BY, so among several       *)
(* matching rows the one returned depends on the query plan: the input     *)
(* sel picks the lowest or the highest gdrive_id of the matches.           *)
(***************************************************************************)
EXTENDS Integers, Sequences, FiniteSets, TLC

VARIABLES
    remote,       \* the Drive account: [folders, files], fixed during a run
    cache,        \* gdrive_ids rows as the session sees them (pending included)
    db,           \* gdrive_ids rows committed to gdrive.db
    perms,        \* permissions_added rows: set of remote file ids
    granted,      \* per remote file id, the number of InsertPermission calls done
    broken,       \* the session is unusable after a failed flush
    last,         \* record of the last call (arguments, result, remote queries)
    prev,         \* record of the call before it
    total_byte_len, part_size_limit, ranges, splitDone,   \* partial()
    dl            \* the generator of do_gdrive_download

vars == <<remote, cache, db, perms, granted, broken, last, prev,
          total_byte_len, part_size_limit, ranges, splitDone, dl>>

cacheVars == <<remote, cache, db, perms, granted, broken, last, prev>>
splitVars == <<total_byte_len, part_size_limit, ranges, splitDone>>

-----------------------------------------------------------------------------
(* Bounds of the model *)

\* a call's k-th remote query (1..MaxFail) may raise; 0: none raises
MaxFail == 3
\* cap of the InsertPermission counter per file
MaxGrant == 2
\* partial(): total lengths 0..MaxLen, part sizes 1..MaxPart
MaxLen == 12
MaxPart == 5
\* do_gdrive_download: file sizes up to MaxHalfParts half parts (+ 0 or 1)
MaxHalfParts == 6

-----------------------------------------------------------------------------
(* Values *)

None == 0
\* the parent id 'root' of the query of getEbooksFolder
DriveRoot == 100
Slash == "/"

\* config.config_google_drive_folder
config_google_drive_folder == <<"Books">>

CoverName == <<"cover.jpg">>

RootPath == <<Slash>>

\* path arguments of getFolderId
Paths ==
    { <<"Author1">>,
      <<"Author1", Slash>>,
      <<"Author1", Slash, "Book1">>,
      <<"Author1", Slash, Slash>>,
      <<"Author1", Slash, "Book2">>,
      <<Slash>> }

\* newPath arguments of updateDatabaseOnEdit
NewPaths == { <<"Author1">> }

\* cover_path arguments of get_cover_via_gdrive (<<>> is the empty string)
CoverPaths == { <<>>, <<"Author1", Slash>>, <<"Author1", Slash, "Book1">> }

\* ID arguments of updateDatabaseOnEdit and deleteDatabaseEntry
IDs == {1, 2, 3}

\* The account with the library: root -> "Books" -> "Author1" -> "Book1"
TreeLibrary ==
    [ folders |-> { [id |-> 1, parent |-> DriveRoot, title |-> <<"Books">>],
                    [id |-> 2, parent |-> 1, title |-> <<"Author1">>],
                    [id |-> 3, parent |-> 2, title |-> <<"Book1">>] },
      files   |-> { [id |-> 11, parent |-> 3, title |-> CoverName],
                    [id |-> 12, parent |-> 2, title |-> CoverName] } ]

\* An account without the library folder
TreeNoLibrary ==
    [ folders |-> { [id |-> 5, parent |-> DriveRoot, title |-> <<"Other">>] },
      files   |-> {} ]

Trees == {TreeLibrary, TreeNoLibrary}

FileIds == {11, 12}

-----------------------------------------------------------------------------
(* Strings: str.split('/'), '/'.join, the trailing-slash normalisation *)

RECURSIVE SplitFrom(_, _, _)
SplitFrom(p, i, cur) ==
    IF i > Len(p) THEN <<cur>>
    ELSE IF p[i] = Slash THEN <<cur>> \o SplitFrom(p, i + 1, <<>>)
    ELSE SplitFrom(p, i + 1, Append(cur, p[i]))

\* path.split('/'): the list of components, empty ones included
split(p) == SplitFrom(p, 1, <<>>)

RECURSIVE join(_)
\* "/".join(s)
join(s) ==
    IF Len(s) = 0 THEN <<>>
    ELSE IF Len(s) = 1 THEN s[1]
    ELSE s[1] \o <<Slash>> \o join(Tail(s))

\* path if path[-1] == '/' else path + '/'
sqlCheckPath(path) ==
    IF path[Len(path)] = Slash THEN path ELSE Append(path, Slash)

\* "/".join(s[:i+1]) with the separator appended when it does not end in one
currentPath(s, i) ==
    LET c == join(SubSeq(s, 1, i))
    IN  IF c[Len(c)] # Slash THEN Append(c, Slash) ELSE c

-----------------------------------------------------------------------------
(* The tables *)

Min(a, b) == IF a <= b THEN a ELSE b

Row(id, path) == [gdrive_id |-> id, path |-> path]

\* session.query(GdriveId).filter(GdriveId.path == path)
RowsByPath(rows, path) == { r \in rows : r.path = path }

\* session.query(GdriveId).filter(GdriveId.gdrive_id == ID)
RowsById(rows, ID) == { r \in rows : r.gdrive_id = ID }

\* .first() of a non-empty result
first(rows, sel) ==
    IF sel = "lo"
    THEN CHOOSE r \in rows : \A q \in rows : r.gdrive_id <= q.gdrive_id
    ELSE CHOOSE r \in rows : \A q \in rows : r.gdrive_id >= q.gdrive_id

\* session.merge(gDriveId) of a new object: one more row
merge(rows, row) == rows \cup {row}

-----------------------------------------------------------------------------
(* The remote queries *)

\* drive.ListFile({'q': ...}).GetList() of getFolderInFolder: the folders of
\* parentId with that title (any title when folderName is empty)
ListFolders(rem, parentId, folderName) ==
    { f \in rem.folders :
        /\ f.parent = parentId
        /\ (Len(folderName) > 0 => f.title = folderName) }

\* getFolderInFolder: None, or fileList[0]['id']
getFolderInFolder(rem, parentId, folderName) ==
    LET fileList == ListFolders(rem, parentId, folderName)
    IN  IF fileList = {} THEN None
        ELSE (CHOOSE f \in fileList : TRUE).id

\* Mutant: the library folder is looked up under parent None instead of 'root'
getEbooksFolder_noneParent(rem) ==
    getFolderInFolder(rem, None, config_google_drive_folder)

\* getEbooksFolder(drive)
getEbooksFolder(rem) == getFolderInFolder(rem, DriveRoot, config_google_drive_folder)

\* getFile(pathId, fileName, drive): None, or fileList[0]['id']
getFile(rem, pathId, fileName) ==
    LET fileList == { f \in rem.files : f.parent = pathId /\ f.title = fileName }
    IN  IF fileList = {} THEN None
        ELSE (CHOOSE f \in fileList : TRUE).id

-----------------------------------------------------------------------------
(* getEbooksFolderId *)

\* Mutant: the stored root row is never found (filter on a path no row has)
storedRoot_never(rows) == RowsByPath(rows, <<>>)

\* session.query(GdriveId).filter(GdriveId.path == '/')
storedRoot(rows) == RowsByPath(rows, RootPath)

\* Mutant: no try/except around the root discovery
RootQuery_uncaught(raises, rem) ==
    [id |-> IF raises THEN None ELSE getEbooksFolder(rem),
     exc |-> raises \/ getEbooksFolder(rem) = None]

\* try: gDriveId.gdrive_id = getEbooksFolder(drive)['id']  except Exception: log
\* raises: the remote query raises.  The except clause catches that, and the
\* TypeError of None['id'] when no folder is found; gdrive_id then stays unset.
RootQuery(raises, rem) ==
    [id |-> IF raises THEN None ELSE getEbooksFolder(rem), exc |-> FALSE]

\* The outcome of one call: the tables after it, the number n of remote
\* queries issued so far, the value returned, whether it raised, and whether
\* the root discovery was attempted and failed.
getEbooksFolderId(rows, committed, n, failAt, rem, sel) ==
    LET storedPathName == storedRoot(rows)
        q == RootQuery(n + 1 = failAt, rem)
        merged == merge(rows, Row(q.id, RootPath))
    IN  IF storedPathName # {}
        THEN [cache |-> rows, db |-> committed, n |-> n,
              ret |-> first(storedPathName, sel).gdrive_id,
              exc |-> FALSE, rootFail |-> FALSE]
        ELSE IF q.exc
        THEN [cache |-> rows, db |-> committed, n |-> n + 1, ret |-> None,
              exc |-> TRUE, rootFail |-> TRUE]
        ELSE [cache |-> merged, db |-> merged, n |-> n + 1,
              ret |-> None,
              exc |-> FALSE, rootFail |-> (q.id = None)]

-----------------------------------------------------------------------------
(* getFolderId *)

\* The state of the loop "for i, x in enumerate(s)":
\* [cache, cur (currentFolderId), n, dbChange, exc, stop, missQ]
\* stop: the loop was left (break, or an exception); missQ: the number of the
\* query that returned nothing.

\* Mutant: the loop does not consult the cache for a prefix
storedPrefix_never(rows, cp) == {}

\* session.query(GdriveId).filter(GdriveId.path == currentPath)
storedPrefix(rows, cp) == RowsByPath(rows, cp)

\* "if storedPathName: currentFolderId = storedPathName.gdrive_id"
Stored(st, id) == [st EXCEPT !.cur = id]

\* the remote query of getFolderInFolder raises
Raised(st) == [st EXCEPT !.n = @ + 1, !.exc = TRUE, !.stop = TRUE]

\* Mutant: the folder found is not merged into the session
Found_nomerge(st, id, cp) ==
    [st EXCEPT !.n = @ + 1, !.dbChange = TRUE, !.cur = id]

\* "if currentFolder:" merge a row for currentPath and descend
Found(st, id, cp) ==
    [st EXCEPT !.n = @ + 1,
               !.cache = merge(@, Row(id, cp)),
               !.dbChange = TRUE,
               !.cur = id]

\* Mutant: no break after a remote query that returned nothing
NotFound_continue(st) ==
    [st EXCEPT !.n = @ + 1, !.cur = None,
               !.missQ = IF @ = 0 THEN st.n + 1 ELSE @]

\* "else: currentFolderId = None; break"
NotFound(st) ==
    [st EXCEPT !.n = @ + 1, !.cur = None, !.stop = TRUE, !.missQ = st.n + 1]

\* The body of the loop for one i
WalkStep(st, s, i, failAt, rem, sel) ==
    LET x == s[i]
        cp == currentPath(s, i)
        storedPathName == storedPrefix(st.cache, cp)
        currentFolder == getFolderInFolder(rem, st.cur, x)
    IN  IF Len(x) = 0 THEN st
        ELSE IF storedPathName # {}
        THEN Stored(st, first(storedPathName, sel).gdrive_id)
        ELSE IF st.n + 1 = failAt THEN Raised(st)
        ELSE IF currentFolder # None THEN Found(st, currentFolder, cp)
        ELSE NotFound(st)

RECURSIVE Walk(_, _, _, _, _, _)
Walk(st, s, i, failAt, rem, sel) ==
    IF i > Len(s) \/ st.stop THEN st
    ELSE Walk(WalkStep(st, s, i, failAt, rem, sel), s, i + 1, failAt, rem, sel)

\* "if dbChange: session.commit()" after the loop; an exception skips it
CommitWalk(w, committed) ==
    IF w.dbChange /\ ~w.exc THEN w.cache ELSE committed

\* The loop and the commit after it.  e: the outcome of getEbooksFolderId,
\* w: the state the loop ends in.
Walked(e, w) ==
    [cache |-> w.cache, db |-> CommitWalk(w, e.db), n |-> w.n,
     ret |-> IF w.exc THEN None ELSE w.cur,
     exc |-> w.exc, rootFail |-> e.rootFail, missQ |-> w.missQ,
     added |-> w.cache \ e.cache]

\* "else: currentFolderId = storedPathName.gdrive_id": the exact match
Exact(e, id) ==
    [cache |-> e.cache, db |-> e.db, n |-> e.n, ret |-> id,
     exc |-> FALSE, rootFail |-> e.rootFail, missQ |-> 0, added |-> {}]

\* getFolderId after its first statement; e: the outcome of getEbooksFolderId
Resolve(path, e, failAt, rem, sel) ==
    IF e.exc
    THEN [cache |-> e.cache, db |-> e.db, n |-> e.n, ret |-> None,
          exc |-> TRUE, rootFail |-> e.rootFail, missQ |-> 0, added |-> {}]
    ELSE IF RowsByPath(e.cache, sqlCheckPath(path)) = {}
    THEN Walked(e, Walk([cache |-> e.cache, cur |-> e.ret, n |-> e.n,
                         dbChange |-> FALSE, exc |-> FALSE, stop |-> FALSE,
                         missQ |-> 0],
                        split(path), 1, failAt, rem, sel))
    ELSE Exact(e, first(RowsByPath(e.cache, sqlCheckPath(path)), sel).gdrive_id)

\* The outcome of getFolderId(path, drive), the queries of the call counted
\* from n = 0
getFolderId(path, rows, committed, failAt, rem, sel) ==
    Resolve(path, getEbooksFolderId(rows, committed, 0, failAt, rem, sel),
            failAt, rem, sel)

-----------------------------------------------------------------------------
(* The record of a call *)

NoCall ==
    [op |-> "none", path |-> <<>>, ID |-> None, res |-> None, raised |-> FALSE,
     lookups |-> 0, failedQ |-> 0, rootFail |-> FALSE, rootBefore |-> FALSE,
     hitBefore |-> FALSE, missing |-> 0, missQ |-> 0, added |-> {},
     removed |-> {}, rowsBefore |-> 0, file |-> None, hadPerm |-> FALSE,
     inserted |-> FALSE]

\* what is kept of the call before the last one
Brief(call) ==
    [op |-> call.op, path |-> call.path, res |-> call.res,
     removed |-> call.removed, missQ |-> call.missQ,
     failedQ |-> call.failedQ, rowsBefore |-> call.rowsBefore]

\* the number of the query that raised in a call that issued n queries
FailedQ(failAt, n) == IF failAt >= 1 /\ failAt <= n THEN failAt ELSE 0

\* the indices of the non-empty components of path
Components(path) == { i \in 1..Len(split(path)) : Len(split(path)[i]) > 0 }

\* how many of the rows a walk of path looks for are absent from rows:
\* the root row and one row per non-empty component
Missing(rows, path) ==
    Cardinality({ i \in Components(path) :
                    RowsByPath(rows, currentPath(split(path), i)) = {} })
    + (IF RowsByPath(rows, RootPath) = {} THEN 1 ELSE 0)

\* Two rows of one path: only then does the row first() returns depend on
\* the query plan
Ambiguous(rows) ==
    \E r \in rows, q \in rows : r.path = q.path /\ r.gdrive_id # q.gdrive_id

\* The query plans that can differ on rows
Sels(rows) == IF Ambiguous(rows) THEN {"lo", "hi"} ELSE {"lo"}

\* The queries of a call that may raise: a call issues at most most queries,
\* so 0 (none raises) and the numbers up to most are all the cases
FailAts(most) == 0..Min(MaxFail, most)

-----------------------------------------------------------------------------
(* The calls on the path cache *)

\* getEbooksFolderId(drive) called on its own
GetEbooksFolderId ==
    /\ ~broken
    /\ \E failAt \in FailAts(Missing(cache, RootPath)), sel \in Sels(cache) :
       \E e \in {getEbooksFolderId(cache, db, 0, failAt, remote, sel)} :
             /\ cache' = e.cache
             /\ db' = e.db
             /\ last' = [NoCall EXCEPT !.op = "getEbooksFolderId",
                           !.res = e.ret, !.raised = e.exc, !.lookups = e.n,
                           !.failedQ = FailedQ(failAt, e.n),
                           !.rootFail = e.rootFail,
                           !.rootBefore = (RowsByPath(cache, RootPath) # {}),
                           !.rowsBefore = Cardinality(cache)]
    /\ prev' = Brief(last)
    /\ UNCHANGED <<remote, perms, granted, broken, splitVars, dl>>

\* getFolderId(path, drive)
GetFolderId ==
    /\ ~broken
    /\ \E path \in Paths, sel \in Sels(cache) :
       \E failAt \in FailAts(Missing(cache, path)) :
       \E r \in {getFolderId(path, cache, db, failAt, remote, sel)} :
             /\ cache' = r.cache
             /\ db' = r.db
             /\ last' = [NoCall EXCEPT !.op = "getFolderId", !.path = path,
                           !.res = r.ret, !.raised = r.exc, !.lookups = r.n,
                           !.failedQ = FailedQ(failAt, r.n),
                           !.rootFail = r.rootFail,
                           !.rootBefore = (RowsByPath(cache, RootPath) # {}),
                           !.hitBefore =
                               (RowsByPath(cache, sqlCheckPath(path)) # {}),
                           !.missing = Missing(cache, path),
                           !.missQ = r.missQ, !.added = r.added,
                           !.rowsBefore = Cardinality(cache)]
    /\ prev' = Brief(last)
    /\ UNCHANGED <<remote, perms, granted, broken, splitVars, dl>>

\* updateDatabaseOnEdit(ID, newPath).  first() returns any of the rows of ID.
\* A second row (ID, sqlCheckPath) violates UniqueConstraint('gdrive_id',
\* 'path'): the commit raises, the transaction is rolled back and the session
\* stays unusable (the module never calls session.rollback()).
UpdateDatabaseOnEdit ==
    /\ ~broken
    /\ \E ID \in IDs, newPath \in NewPaths :
         LET storedPathName == RowsById(cache, ID)
             edited == Row(ID, sqlCheckPath(newPath))
             call == [NoCall EXCEPT !.op = "updateDatabaseOnEdit", !.ID = ID,
                        !.path = newPath, !.rowsBefore = Cardinality(cache)]
         IN  IF storedPathName = {}
             THEN /\ last' = call
                  /\ UNCHANGED <<cache, db, broken>>
             ELSE \E row \in storedPathName :
                    IF row # edited /\ edited \in cache
                    THEN /\ cache' = db
                         /\ broken' = TRUE
                         /\ last' = [call EXCEPT !.raised = TRUE]
                         /\ UNCHANGED db
                    ELSE /\ cache' = (cache \ {row}) \cup {edited}
                         /\ db' = cache'
                         /\ last' = call
                         /\ UNCHANGED broken
    /\ prev' = Brief(last)
    /\ UNCHANGED <<remote, perms, granted, splitVars, dl>>

\* deleteDatabaseEntry(ID)
DeleteDatabaseEntry ==
    /\ ~broken
    /\ \E ID \in IDs :
         /\ cache' = cache \ RowsById(cache, ID)
         /\ db' = cache'
         /\ last' = [NoCall EXCEPT !.op = "deleteDatabaseEntry", !.ID = ID,
                       !.removed = { r.path : r \in RowsById(cache, ID) },
                       !.rowsBefore = Cardinality(cache)]
    /\ prev' = Brief(last)
    /\ UNCHANGED <<remote, perms, granted, broken, splitVars, dl>>

\* deleteDatabaseOnChange()
DeleteDatabaseOnChange ==
    /\ ~broken
    /\ cache' = {}
    /\ db' = {}
    /\ last' = [NoCall EXCEPT !.op = "deleteDatabaseOnChange",
                  !.removed = { r.path : r \in cache },
                  !.rowsBefore = Cardinality(cache)]
    /\ prev' = Brief(last)
    /\ UNCHANGED <<remote, perms, granted, broken, splitVars, dl>>

-----------------------------------------------------------------------------
(* get_cover_via_gdrive *)

\* Mutant: the PermissionAdded row is not looked up
hasPermission_never(added, id) == FALSE

\* session.query(PermissionAdded).filter(PermissionAdded.gdrive_id == df['id']).first()
hasPermission(added, id) == id \in added

\* what getFileFromEbooksFolder keeps of the outcome of a folder lookup
Folder(r) ==
    [cache |-> r.cache, db |-> r.db, n |-> r.n, ret |-> r.ret, exc |-> r.exc]

\* "if folderId: return getFile(folderId, fileName, drive) else: return None"
\* f: the outcome of the folder lookup; getFile issues one more remote query
FileIn(f, failAt, rem) ==
    IF f.exc \/ f.ret = None THEN [f EXCEPT !.ret = None]
    ELSE IF f.n + 1 = failAt
    THEN [f EXCEPT !.n = @ + 1, !.ret = None, !.exc = TRUE]
    ELSE [f EXCEPT !.n = @ + 1, !.ret = getFile(rem, f.ret, CoverName)]

\* getFileFromEbooksFolder(path, 'cover.jpg')
getFileFromEbooksFolder(path, rows, committed, failAt, rem, sel) ==
    IF Len(path) > 0
    THEN FileIn(Folder(getFolderId(path, rows, committed, failAt, rem, sel)),
                failAt, rem)
    ELSE FileIn(Folder(getEbooksFolderId(rows, committed, 0, failAt, rem, sel)),
                failAt, rem)

\* the rows the folder lookup of getFileFromEbooksFolder looks for and misses
MissingCover(rows, path) ==
    IF Len(path) > 0 THEN Missing(rows, path) ELSE Missing(rows, RootPath)

\* get_cover_via_gdrive(cover_path).  permOk: df.GetPermissions() and
\* df.InsertPermission(...) return; otherwise one of them raises and no row is
\* added.  The value returned is modelled by the file's id.
GetCoverViaGdrive ==
    /\ ~broken
    /\ \E cover_path \in CoverPaths, sel \in Sels(cache) :
       \E failAt \in FailAts(MissingCover(cache, cover_path) + 1) :
       \E f \in {getFileFromEbooksFolder(cover_path, cache, db, failAt, remote, sel)} :
         LET df == f.ret
             call == [NoCall EXCEPT !.op = "get_cover_via_gdrive",
                        !.path = cover_path, !.raised = f.exc, !.lookups = f.n,
                        !.failedQ = FailedQ(failAt, f.n), !.file = df,
                        !.rowsBefore = Cardinality(cache)]
         IN  /\ cache' = f.cache
             /\ IF df = None
                THEN /\ db' = f.db
                     /\ last' = call
                     /\ UNCHANGED <<perms, granted>>
                ELSE IF hasPermission(perms, df)
                THEN /\ db' = f.db
                     /\ last' = [call EXCEPT !.res = df, !.hadPerm = TRUE]
                     /\ UNCHANGED <<perms, granted>>
                ELSE \E permOk \in BOOLEAN :
                       IF ~permOk
                       THEN /\ db' = f.db
                            /\ last' = [call EXCEPT !.raised = TRUE]
                            /\ UNCHANGED <<perms, granted>>
                       ELSE /\ granted[df] < MaxGrant
                            /\ granted' = [granted EXCEPT ![df] = @ + 1]
                            /\ perms' = perms \cup {df}
                            /\ db' = f.cache
                            /\ last' = [call EXCEPT !.res = df, !.inserted = TRUE]
    /\ prev' = Brief(last)
    /\ UNCHANGED <<remote, broken, splitVars, dl>>

-----------------------------------------------------------------------------
(* The specification of the path cache *)

NoDownload ==
    [s |-> <<>>, requested |-> <<>>, yielded |-> <<>>, state |-> "none",
     status |-> 0, pulls |-> 0, total_size |-> 0]

Init ==
    /\ remote \in Trees
    /\ cache = {}
    /\ db = {}
    /\ perms = {}
    /\ granted = [f \in FileIds |-> 0]
    /\ broken = FALSE
    /\ last = NoCall
    /\ prev = Brief(NoCall)
    /\ total_byte_len = 0
    /\ part_size_limit = 1
    /\ ranges = <<>>
    /\ splitDone = FALSE
    /\ dl = NoDownload

Next ==
    \/ GetEbooksFolderId
    \/ GetFolderId
    \/ UpdateDatabaseOnEdit
    \/ DeleteDatabaseEntry
    \/ DeleteDatabaseOnChange

Spec == Init /\ [][Next]_vars

\* get_cover_via_gdrive with the calls that empty the cache between its uses
NextCover ==
    \/ GetCoverViaGdrive
    \/ DeleteDatabaseEntry
    \/ DeleteDatabaseOnChange

SpecCover == Init /\ [][NextCover]_vars

-----------------------------------------------------------------------------
(* partial(total_byte_len, part_size_limit) *)

\* Mutant: the last byte is not clipped to total_byte_len - 1
LastByte_unclipped(L, p, C) == p + C - 1

\* last = min(total_byte_len - 1, p + part_size_limit - 1)
LastByte(L, p, C) == Min(L - 1, p + C - 1)

RECURSIVE PartialFrom(_, _, _)
\* for p in range(0, total_byte_len, part_size_limit): s.append([p, last])
PartialFrom(p, L, C) ==
    IF p >= L THEN <<>>
    ELSE <<<<p, LastByte(L, p, C)>>>> \o PartialFrom(p + C, L, C)

partial(L, C) == PartialFrom(0, L, C)

InitPartial ==
    /\ total_byte_len \in 0..MaxLen
    /\ part_size_limit \in 1..MaxPart
    /\ ranges = <<>>
    /\ splitDone = FALSE
    /\ remote = TreeLibrary
    /\ cache = {}
    /\ db = {}
    /\ perms = {}
    /\ granted = [f \in FileIds |-> 0]
    /\ broken = FALSE
    /\ last = NoCall
    /\ prev = Brief(NoCall)
    /\ dl = NoDownload

Partial ==
    /\ ~splitDone
    /\ ranges' = partial(total_byte_len, part_size_limit)
    /\ splitDone' = TRUE
    /\ UNCHANGED <<total_byte_len, part_size_limit, cacheVars, dl>>

NextPartial == Partial

SpecPartial == InitPartial /\ [][NextPartial]_vars

-----------------------------------------------------------------------------
(* do_gdrive_download *)

\* the part size of do_gdrive_download
PartSize == 1024 * 1024

\* int(df.metadata.get('fileSize')) of the files downloaded
FileSizes == { k * (PartSize \div 2) + r : k \in 0..MaxHalfParts, r \in {0, 1} }

\* resp.status of a range request; Raise: the request raises
PartialContent == 206
Raise == -1
Statuses == {PartialContent, 200, 404, Raise}

\* Mutant: a status other than 206 skips the chunk and the loop goes on
Pull_continue(g, status) ==
    LET k == Len(g.requested) + 1
    IN  IF k > Len(g.s)
        THEN [g EXCEPT !.state = "exhausted", !.pulls = @ + 1]
        ELSE IF status = PartialContent
        THEN [g EXCEPT !.requested = Append(@, g.s[k]),
                       !.yielded = Append(@, g.s[k]),
                       !.status = status, !.pulls = @ + 1]
        ELSE [g EXCEPT !.requested = Append(@, g.s[k]),
                       !.status = status, !.pulls = @ + 1]

\* One pull of stream() on an open generator: the next range is requested;
\* status 206 yields its content (modelled by the range), any other status
\* ends the generator, an exception leaves it.  With no range left it ends.
Pull(g, status) ==
    LET k == Len(g.requested) + 1
    IN  IF k > Len(g.s)
        THEN [g EXCEPT !.state = "exhausted", !.pulls = @ + 1]
        ELSE IF status = Raise
        THEN [g EXCEPT !.requested = Append(@, g.s[k]), !.state = "raised",
                       !.status = status, !.pulls = @ + 1]
        ELSE IF status = PartialContent
        THEN [g EXCEPT !.requested = Append(@, g.s[k]),
                       !.yielded = Append(@, g.s[k]),
                       !.status = status, !.pulls = @ + 1]
        ELSE [g EXCEPT !.requested = Append(@, g.s[k]), !.state = "aborted",
                       !.status = status, !.pulls = @ + 1]

\* do_gdrive_download(df, headers): the generator, before its first pull
DoGdriveDownload ==
    /\ dl.state = "none"
    /\ \E total_size \in FileSizes :
         dl' = [s |-> partial(total_size, PartSize), requested |-> <<>>,
                yielded |-> <<>>, state |-> "open", status |-> 0, pulls |-> 0,
                total_size |-> total_size]
    /\ UNCHANGED <<cacheVars, splitVars>>

\* the consumer pulls the next chunk
Next_chunk ==
    /\ dl.state = "open"
    /\ \E status \in Statuses : dl' = Pull(dl, status)
    /\ UNCHANGED <<cacheVars, splitVars>>

NextDownload ==
    \/ DoGdriveDownload
    \/ Next_chunk

InitDownload ==
    /\ dl = NoDownload
    /\ remote = TreeLibrary
    /\ cache = {}
    /\ db = {}
    /\ perms = {}
    /\ granted = [f \in FileIds |-> 0]
    /\ broken = FALSE
    /\ last = NoCall
    /\ prev = Brief(NoCall)
    /\ total_byte_len = 0
    /\ part_size_limit = 1
    /\ ranges = <<>>
    /\ splitDone = FALSE

SpecDownload == InitDownload /\ [][NextDownload]_vars

-----------------------------------------------------------------------------
(* Properties of the path cache, checked under Spec *)

P_Author1 == <<"Author1", Slash>>

\* the last call was getFolderId(P_Author1) on an empty cache, the account
\* holding root -> "Books" -> "Author1", and no remote query raised
FirstResolve(call) ==
    /\ remote = TreeLibrary
    /\ call.op = "getFolderId"
    /\ call.path = P_Author1
    /\ call.rowsBefore = 0
    /\ call.failedQ = 0

\* the last two calls were getFolderId(P_Author1), the first on an empty cache
SecondResolve ==
    /\ FirstResolve(prev)
    /\ last.op = "getFolderId"
    /\ last.path = P_Author1
    /\ last.failedQ = 0

Repeated ==
    /\ last.op = "getFolderId"
    /\ prev.op = "getFolderId"
    /\ last.path = prev.path

\* C2 as stated: the second of two getFolderId calls in a row for one path
\* issues zero remote queries, whether the path resolved or was not found
\* (here: no remote query raised in either call).
C2_AsStated ==
    (Repeated /\ prev.failedQ = 0 /\ last.failedQ = 0) => last.lookups = 0

\* C2 amended: the second call issues zero remote queries when the first call
\* returned a remote id; when the first call ended on a remote query that
\* returned nothing, the second call issues at least one remote query again.
C2_Amended ==
    /\ (Repeated /\ prev.res # None) => last.lookups = 0
    /\ (Repeated /\ prev.missQ # 0) => last.lookups >= 1

\* C2 witness: a path resolved by a walk with remote queries, resolved again
\* at once with none
C2_Witness ==
    /\ Repeated
    /\ prev.res # None
    /\ Cardinality(Components(last.path)) = 2
    /\ last.res = prev.res
    /\ last.lookups = 0

\* the remote ids of the rows of the path the last call asked for
IdsOfPath == { r.gdrive_id : r \in RowsByPath(cache, sqlCheckPath(last.path)) }

\* C4 as stated: when the cache holds a row of the normalized path,
\* getFolderId returns that row's id without any remote call, also when the
\* row "/" is absent.
C4_AsStated ==
    (last.op = "getFolderId" /\ last.hitBefore) =>
        /\ ~last.raised
        /\ last.res \in IdsOfPath
        /\ last.lookups = 0

\* C4 amended: when the cache holds a row of the normalized path, getFolderId
\* returns that row's id without raising; it issues no remote call when the
\* row "/" is present and exactly one, the root discovery, when it is absent.
C4_Amended ==
    (last.op = "getFolderId" /\ last.hitBefore) =>
        /\ ~last.raised
        /\ last.res \in IdsOfPath
        /\ last.lookups = (IF last.rootBefore THEN 0 ELSE 1)

\* C4 witness: an exact match answered while the row "/" was absent
C4_Witness ==
    /\ last.op = "getFolderId"
    /\ last.hitBefore
    /\ ~last.rootBefore
    /\ last.res # None
    /\ last.lookups = 1

\* getFolderId(path) right after deleteDatabaseEntry removed a row of path
AfterDelete ==
    /\ last.op = "getFolderId"
    /\ prev.op = "deleteDatabaseEntry"
    /\ sqlCheckPath(last.path) \in prev.removed

\* C5 as stated: the getFolderId call after deleteDatabaseEntry removed the
\* path's row issues a remote lookup for every component of the path.
C5_AsStated ==
    (AfterDelete /\ last.failedQ = 0 /\ last.res # None) =>
        last.lookups >= Cardinality(Components(last.path))

\* C5 amended: that call walks the path again but issues remote lookups only
\* for the rows that are absent from the cache (the root row and one row per
\* component): never more than those, and exactly those when the walk
\* resolves the path.  With only the path's own row deleted that is one lookup.
C5_Amended ==
    AfterDelete =>
        /\ last.lookups <= last.missing
        /\ (last.res # None /\ ~last.hitBefore) => last.lookups = last.missing

\* C5 witness: the row of a two-component path deleted, the path resolved
\* again with a single remote lookup
C5_Witness ==
    /\ AfterDelete
    /\ Cardinality(Components(last.path)) = 2
    /\ last.res # None
    /\ last.lookups = 1

\* the root discovery of the last call failed and no later query of it raised
RootDiscoveryFailed ==
    /\ last.op \in {"getEbooksFolderId", "getFolderId"}
    /\ last.rootFail
    /\ last.failedQ <= 1

C8_Theorem ==
    (last.op = "getFolderId" /\ last.missQ # 0) =>
        /\ last.res = None
        /\ ~last.raised
        /\ last.lookups = last.missQ
        /\ last.added \subseteq cache
        /\ last.added \subseteq db

\* C8 witness: a walk that merged a row for a prefix and then met a component
\* the remote does not have
C8_Witness ==
    /\ last.op = "getFolderId"
    /\ last.missQ # 0
    /\ last.added # {}
    /\ last.added \subseteq db

\* C10 as stated: every row of the path cache holds a remote id a remote
\* query returned, never an empty one.
C10_AsStated ==
    \A r \in cache \cup db :
        /\ r.gdrive_id # None
        /\ r.gdrive_id \in { f.id : f \in remote.folders }

\* C11 as stated: after any sequence of getEbooksFolderId, getFolderId,
\* updateDatabaseOnEdit, deleteDatabaseEntry and deleteDatabaseOnChange calls
\* the path cache holds at most one row per path, in the session and in
\* gdrive.db, so a lookup by path never chooses between two remote ids.
C11_AsStated ==
    \A rows \in {cache, db} :
        \A r \in rows : Cardinality(RowsByPath(rows, r.path)) <= 1

-----------------------------------------------------------------------------
(* get_cover_via_gdrive, checked under SpecCover *)

\* C6: over any sequence of get_cover_via_gdrive calls the permission is
\* inserted at most once per remote file id, and a file has a PermissionAdded
\* row exactly when its permission was inserted; so a call that finds the row
\* makes no InsertPermission call and adds no row.
C6_Theorem ==
    \A f \in FileIds :
        /\ granted[f] <= 1
        /\ (f \in perms) <=> (granted[f] = 1)

\* C6 witness: two calls in a row returned the same cover file, the second
\* found the PermissionAdded row the first had added
C6_Witness ==
    /\ last.op = "get_cover_via_gdrive"
    /\ prev.op = "get_cover_via_gdrive"
    /\ last.hadPerm
    /\ last.res # None
    /\ prev.res = last.res
    /\ granted[last.res] = 1

-----------------------------------------------------------------------------
(* partial, checked under SpecPartial *)

\* C3: for L >= 0 and C > 0, partial(L, C) is a list of [start, end] pairs
\* that are contiguous and non-overlapping and cover exactly [0, L-1], each
\* with 0 <= start <= end <= L-1 and at most C bytes; it is empty when L = 0.
C3_Theorem ==
    splitDone =>
        LET L == total_byte_len
            C == part_size_limit
            s == ranges
        IN  /\ (L = 0) <=> (s = <<>>)
            /\ \A i \in 1..Len(s) :
                 /\ Len(s[i]) = 2
                 /\ 0 <= s[i][1]
                 /\ s[i][1] <= s[i][2]
                 /\ s[i][2] <= L - 1
                 /\ s[i][2] - s[i][1] + 1 <= C
            /\ L > 0 => (s[1][1] = 0 /\ s[Len(s)][2] = L - 1)
            /\ \A i \in 1..(Len(s) - 1) : s[i + 1][1] = s[i][2] + 1

\* C3 witness: a split into several ranges whose last one is shorter than the
\* part size
C3_Witness ==
    /\ splitDone
    /\ Len(ranges) = 3
    /\ ranges[3][2] - ranges[3][1] + 1 < part_size_limit
    /\ ranges[3][2] = total_byte_len - 1

-----------------------------------------------------------------------------
(* do_gdrive_download, checked under SpecDownload *)

====
